---- MODULE Spec2Model ----
(***************************************************************************)
(* BOSHServerSession (lib/bosh/session.js): the request-ordering state     *)
(* machine of one BOSH session.                                            *)
(*                                                                         *)
(* The session object's fields are the variables nextRid, inQueue,         *)
(* outQueue, stanzaQueue and connectionTimeout.  The node.js run time is   *)
(* modelled by tasks (the process.nextTick queue, FIFO), timers (the armed *)
(* per-request setTimeout handles, in arming order) and orphaned (armed    *)
(* session timers whose handle this.connectionTimeout no longer holds).    *)
(* What the session does to the outside is recorded in three logs: events  *)
(* (EventEmitter emissions), written (HTTP responses ended) and handled    *)
(* (requests taken out of inQueue by workInQueue).  ctxs is the table of   *)
(* request contexts handed to the session, wrote the payloads passed to    *)
(* write().                                                                *)
(***************************************************************************)
EXTENDS Integers, Sequences, FiniteSets

VARIABLES nextRid, inQueue, outQueue, stanzaQueue, connectionTimeout,
          orphaned, timers, tasks, ctxs, wrote, events, written, handled

vars == <<nextRid, inQueue, outQueue, stanzaQueue, connectionTimeout,
          orphaned, timers, tasks, ctxs, wrote, events, written, handled>>

(* ------------------------------ bounds -------------------------------- *)
\* calls the transport and the connection make after construction
\* (handleHTTP and write together)
MaxCalls == 3
\* a request body carries no child or MaxChildren children
MaxChildren == 2
\* sequence numbers submitted: FirstRid .. FirstRid + MaxAhead
MaxAhead == 2

\* opts.bodyEl.attrs.rid of the creating request
FirstRid == 1

Rids == FirstRid .. (FirstRid + MaxAhead)
Types == {"", "terminate"}
Restarts == {"", "true"}
ChildCounts == {0, MaxChildren}

\* A request context: the attributes of opts.bodyEl the session reads, and
\* the number of child elements of the body.
Bodies == [rid : Rids, type : Types, sid : BOOLEAN, restart : Restarts,
           nch : ChildCounts]

\* The request that creates the session: it carries no sid yet.
Creations == {b \in Bodies : b.rid = FirstRid /\ ~b.sid /\ b.type = ""
                              /\ b.restart = ""}

\* The requests the transport routes to an existing session: they carry
\* its sid.
Requests == {b \in Bodies : b.sid /\ b.restart = ""}

(* --------------------------- pure helpers ----------------------------- *)
\* stanza.root().children.toString(): every child of the body is a child of
\* the parsed <body/> root, so root() is the body and the string is the
\* comma-joined serialisation of ALL of its children, whichever child the
\* forEach is at.  The string is represented by the list of child indices
\* it serialises.
RootChildren(c) == [k \in 1 .. ctxs[c].nch |-> k]

Ev(kind, c, what, kids) ==
  [ev |-> kind, ctx |-> c, what |-> what, kids |-> kids]
DataEv(c, what, kids) == Ev("data", c, what, kids)
Plain(kind) == Ev(kind, 0, "", <<>>)

\* One sendData per child of the body, each carrying RootChildren.
ChildEvents(c) ==
  [k \in 1 .. ctxs[c].nch |-> DataEv(c, "children", RootChildren(c))]

\* a stream start that does not look at the sid of the request
StreamEventsAnySid(c) ==
  (IF ctxs[c].restart = ""
     THEN <<DataEv(c, "xmldecl", <<>>), DataEv(c, "stream", <<>>)>>
     ELSE <<>>)
  \o (IF ctxs[c].restart = "true"
        THEN <<DataEv(c, "stream", <<>>)>> ELSE <<>>)

\* The stream start / stream reset strings workInQueue emits for context c.
StreamEvents(c) ==
  (IF ctxs[c].restart = "" /\ ~ctxs[c].sid
     THEN <<DataEv(c, "xmldecl", <<>>), DataEv(c, "stream", <<>>)>>
     ELSE <<>>)
  \o (IF ctxs[c].restart = "true"
        THEN <<DataEv(c, "stream", <<>>)>> ELSE <<>>)

\* ltx.parse(element) in respond(): a fragment that fails to parse is
\* logged and left out of the body.
Parsed(stanzas) == SelectSeq(stanzas, LAMBDA p : p.wf)

Resp(c, kind, children) == [ctx |-> c, kind |-> kind, children |-> children]

Remove(q, x) == SelectSeq(q, LAMBDA y : y # x)

\* Index of the first context of q with sequence number rid, or Len(q)+1.
FirstWithRid(q, rid) ==
  LET hits == {i \in 1 .. Len(q) : ctxs[q[i]].rid = rid}
  IN  IF hits = {} THEN Len(q) + 1
      ELSE CHOOSE i \in hits : \A j \in hits : i <= j

\* a store that keeps the context already queued under rid
StoreKeepsFirst(q, rid, c) ==
  [r \in DOMAIN q \cup {rid} |-> IF r \in DOMAIN q THEN q[r] ELSE c]

\* this.inQueue[rid] = opts
Store(q, rid, c) ==
  [r \in DOMAIN q \cup {rid} |-> IF r = rid THEN c ELSE q[r]]

\* a delete that leaves the entry in place
DeleteKeeps(q, rid) == q

\* delete this.inQueue[rid]
Delete(q, rid) == [r \in DOMAIN q \ {rid} |-> q[r]]

\* a shift() that leaves the answered context at the head of the queue
ShiftKeepsHead(q) == q

\* this.outQueue.shift(): the queue it leaves
Shift(q) == Tail(q)

\* a drain that leaves the batch it has sent in stanzaQueue
BatchKept(q) == q

\* var stanzas = this.stanzaQueue; this.stanzaQueue = []
BatchTaken(q) == <<>>

DropAt(q, i) == [j \in 1 .. Len(q) - 1 |-> IF j < i THEN q[j] ELSE q[j + 1]]

(* ------------------- the session as a state record -------------------- *)
State ==
  [nextRid |-> nextRid, inQueue |-> inQueue, outQueue |-> outQueue,
   stanzaQueue |-> stanzaQueue, connectionTimeout |-> connectionTimeout,
   orphaned |-> orphaned, timers |-> timers, tasks |-> tasks,
   events |-> events, written |-> written, handled |-> handled]

Becomes(s) ==
  /\ nextRid' = s.nextRid
  /\ inQueue' = s.inQueue
  /\ outQueue' = s.outQueue
  /\ stanzaQueue' = s.stanzaQueue
  /\ connectionTimeout' = s.connectionTimeout
  /\ orphaned' = s.orphaned
  /\ timers' = s.timers
  /\ tasks' = s.tasks
  /\ events' = s.events
  /\ written' = s.written
  /\ handled' = s.handled

\* maySetConnectionTimeout: with outQueue empty a new 60 s timer is armed
\* and stored; a timer the field still held is not cleared and stays armed.
maySetConnectionTimeout(s) ==
  IF Len(s.outQueue) < 1
    THEN [s EXCEPT !.connectionTimeout = "armed",
                   !.orphaned = IF s.connectionTimeout = "armed"
                                  THEN @ + 1 ELSE @]
    ELSE s

\* a flush that answers only the terminate request itself
TerminateLast(s) ==
  LET opts == s.outQueue[Len(s.outQueue)]
  IN  [s EXCEPT
         !.timers = Remove(@, opts),
         !.written = Append(@, Resp(opts, "terminate", <<>>)),
         !.outQueue = <<>>,
         !.events = @ \o <<Plain("end"), Plain("close")>>]

\* The terminate branch of workInQueue: every context of outQueue gets a
\* terminate response, its timer is cleared, outQueue is emptied and
\* closeSocket emits 'end' and 'close'.
TerminateAll(s) ==
  [s EXCEPT
     !.timers = SelectSeq(@, LAMBDA t :
                  \A i \in 1 .. Len(s.outQueue) : s.outQueue[i] # t),
     !.written = @ \o [i \in 1 .. Len(s.outQueue) |->
                         Resp(s.outQueue[i], "terminate", <<>>)],
     !.outQueue = <<>>,
     !.events = @ \o <<Plain("end"), Plain("close")>>]

\* workOutQueue
workOutQueue(s) ==
  IF Len(s.stanzaQueue) < 1 /\ Len(s.outQueue) > 0
    THEN [s EXCEPT !.events = Append(@, Plain("drain"))]
  ELSE IF Len(s.outQueue) < 1
    THEN s
  ELSE LET opts == Head(s.outQueue)
       IN  maySetConnectionTimeout(
             [s EXCEPT !.stanzaQueue = BatchTaken(@),
                       !.outQueue = Shift(@),
                       !.timers = Remove(@, opts),
                       !.written = Append(@, Resp(opts, "normal",
                                                  Parsed(s.stanzaQueue)))])

\* workInQueue
workInQueue(s) ==
  IF s.nextRid \notin DOMAIN s.inQueue
    THEN s
  ELSE LET opts == s.inQueue[s.nextRid]
           t == [s EXCEPT
                   !.inQueue = Delete(@, s.nextRid),
                   !.nextRid = @ + 1,
                   !.handled = Append(@, opts),
                   !.events = @ \o StreamEvents(opts) \o ChildEvents(opts),
                   !.outQueue = Append(@, opts)]
       IN  IF ctxs[opts].type # "terminate"
             THEN [t EXCEPT !.tasks = Append(@, "respond")]
             ELSE TerminateAll(t)

\* onReqTimeout(rid)
onReqTimeout(s, rid) ==
  IF rid \in DOMAIN s.inQueue
    THEN [s EXCEPT
            !.inQueue = Delete(@, rid),
            !.written = Append(@, Resp(s.inQueue[rid], "ack", <<>>))]
  ELSE LET i == FirstWithRid(s.outQueue, rid)
       IN  IF i <= Len(s.outQueue)
             THEN [s EXCEPT
                     !.outQueue = DropAt(@, i),
                     !.written = Append(@, Resp(s.outQueue[i], "ack", <<>>))]
             ELSE s

\* a stale branch without its return: the context is pushed to outQueue and
\* then admitted like a fresh request
StaleFallsThrough(s, c) ==
  [s EXCEPT !.outQueue = Append(@, c),
            !.connectionTimeout = "unset",
            !.timers = Append(@, c),
            !.inQueue = Store(@, ctxs'[c].rid, c),
            !.tasks = Append(@, "workInQueue")]

\* the stale branch of handleHTTP: this.outQueue.push(opts); return
Stale(s, c) == [s EXCEPT !.outQueue = Append(@, c)]

(* ------------------------------ actions ------------------------------- *)
\* handleHTTP and write calls made so far
Calls == (Len(ctxs) - 1) + Len(wrote)

\* The state the constructor leaves: the idle timer armed, 'connect'
\* emitted, the creating request in inQueue without a timer of its own and
\* one workInQueue scheduled.
Init ==
  /\ \E b \in Creations : ctxs = <<b>>
  /\ nextRid = FirstRid
  /\ inQueue = [r \in {FirstRid} |-> 1]
  /\ outQueue = <<>>
  /\ stanzaQueue = <<>>
  /\ connectionTimeout = "armed"
  /\ orphaned = 0
  /\ timers = <<>>
  /\ tasks = <<"workInQueue">>
  /\ wrote = <<>>
  /\ events = <<Plain("connect")>>
  /\ written = <<>>
  /\ handled = <<>>

\* handleHTTP(opts), opts.bodyEl drawn from B.  The transport calls it from
\* the I/O callback of a request, which node.js runs with the nextTick
\* queue drained.
handleHTTP(B) ==
  /\ tasks = <<>>
  /\ Calls < MaxCalls
  /\ \E b \in B :
       LET c == Len(ctxs) + 1
           dup == b.rid \in DOMAIN inQueue
           s1 == IF dup
                   THEN [State EXCEPT
                           !.written = Append(@, Resp(inQueue[b.rid],
                                                      "conflict", <<>>))]
                   ELSE State
       IN  /\ ctxs' = Append(ctxs, b)
           /\ wrote' = wrote
           /\ IF ~dup /\ b.rid < nextRid
                THEN Becomes(Stale(s1, c))
                ELSE Becomes([s1 EXCEPT
                       !.connectionTimeout = "unset",
                       !.timers = Append(@, c),
                       !.inQueue = Store(@, b.rid, c),
                       !.tasks = Append(@, "workInQueue")])

\* write(data).  The connection may call it from inside an event handler,
\* so also while nextTick callbacks are pending.
write ==
  /\ Calls < MaxCalls
  /\ \E wf \in BOOLEAN :
       LET data == [n |-> Len(wrote) + 1, wf |-> wf]
       IN  /\ wrote' = Append(wrote, data)
           /\ ctxs' = ctxs
           /\ Becomes([State EXCEPT !.stanzaQueue = Append(@, data),
                                    !.tasks = Append(@, "workOutQueue")])

\* process.nextTick callbacks run in the order they were scheduled.
tickWorkInQueue ==
  /\ tasks # <<>> /\ Head(tasks) = "workInQueue"
  /\ Becomes(workInQueue([State EXCEPT !.tasks = Tail(@)]))
  /\ UNCHANGED <<ctxs, wrote>>

tickWorkOutQueue ==
  /\ tasks # <<>> /\ Head(tasks) = "workOutQueue"
  /\ Becomes(workOutQueue([State EXCEPT !.tasks = Tail(@)]))
  /\ UNCHANGED <<ctxs, wrote>>

\* the callback workInQueue schedules: workOutQueue(), then workInQueue()
tickRespond ==
  /\ tasks # <<>> /\ Head(tasks) = "respond"
  /\ Becomes(workInQueue(workOutQueue([State EXCEPT !.tasks = Tail(@)])))
  /\ UNCHANGED <<ctxs, wrote>>

\* A request timer expires.  Timers run after the nextTick queue has
\* drained, and timers of one delay (wait) expire in arming order.
reqTimeout ==
  /\ tasks = <<>>
  /\ timers # <<>>
  /\ Becomes(onReqTimeout([State EXCEPT !.timers = Tail(@)],
                          ctxs[Head(timers)].rid))
  /\ UNCHANGED <<ctxs, wrote>>

\* A session timer expires: 'error' then 'close'.  The field keeps the
\* handle of the expired timer.
sessionTimeout ==
  /\ tasks = <<>>
  /\ orphaned > 0 \/ connectionTimeout = "armed"
  /\ Becomes([State EXCEPT
       !.orphaned = IF @ > 0 THEN @ - 1 ELSE @,
       !.connectionTimeout = IF orphaned > 0 THEN @ ELSE "expired",
       !.events = @ \o <<Plain("error"), Plain("close")>>])
  /\ UNCHANGED <<ctxs, wrote>>

Next ==
  \/ handleHTTP(Requests)
  \/ write
  \/ tickWorkInQueue
  \/ tickWorkOutQueue
  \/ tickRespond
  \/ reqTimeout
  \/ sessionTimeout

Spec == Init /\ [][Next]_vars

\* Requests of a client that restarts its stream: each carries stanzas, any
\* of them may carry xmpp:restart="true", none is a terminate request.
StreamRequests == {b \in Bodies : b.sid /\ b.type = "" /\ b.nch > 0}

NextStream ==
  \/ handleHTTP(StreamRequests)
  \/ write
  \/ tickWorkInQueue
  \/ tickWorkOutQueue
  \/ tickRespond
  \/ reqTimeout
  \/ sessionTimeout

SpecStream == Init /\ [][NextStream]_vars

(* --------------------- vocabulary of the properties ------------------- *)
Ctxs == 1 .. Len(ctxs)
Range(q) == {q[i] : i \in 1 .. Len(q)}
Held == Range(outQueue) \cup {inQueue[r] : r \in DOMAIN inQueue}

\* responses written to context c
Answers(c) == Cardinality({i \in 1 .. Len(written) : written[i].ctx = c})
Answered(c) == \E i \in 1 .. Len(written) : written[i].ctx = c
AnsweredAs(c, kind) ==
  \E i \in 1 .. Len(written) : written[i].ctx = c /\ written[i].kind = kind

Emitted(kind) == {i \in 1 .. Len(events) : events[i].ev = kind}
Closed == Emitted("close") # {}

\* positions of the 'data' events that carry child payloads
ChildData == {i \in 1 .. Len(events) :
                events[i].ev = "data" /\ events[i].what = "children"}

\* armed session timers
IdleArmed == orphaned + (IF connectionTimeout = "armed" THEN 1 ELSE 0)

\* nothing is scheduled and no timer is armed: only a new handleHTTP or
\* write call can change the state
Quiescent == tasks = <<>> /\ timers = <<>> /\ IdleArmed = 0

IsPrefix(p, q) == Len(p) <= Len(q) /\ \A i \in 1 .. Len(p) : p[i] = q[i]

(* -------------------------------- C1 ---------------------------------- *)
\* C1: the 'data' events that carry child payloads are emitted in ascending
\* sequence-number order (no payload of a later request before a payload of
\* an earlier one), and no child payload of a request is emitted more than
\* once.
C1_DataAscendingOnce ==
  /\ \A i, j \in ChildData :
       i < j => ctxs[events[i].ctx].rid <= ctxs[events[j].ctx].rid
  /\ \A c \in Ctxs : \A k \in 1 .. ctxs[c].nch :
       Cardinality({i \in ChildData :
                      events[i].ctx = c /\ k \in Range(events[i].kids)}) <= 1

(* -------------------------------- C2 ---------------------------------- *)
\* C2: every request context handed to the session gets its response
\* without any further handleHTTP or write call: once every scheduled task
\* has run and every armed timer has fired, no context is left unanswered.
C2_AllAnsweredWhenQuiescent ==
  Quiescent => \A c \in Ctxs : Answered(c)

(* -------------------------------- C3 ---------------------------------- *)
\* C3: no request context is answered more than once, whatever mix of 403
\* conflict, normal response, empty acknowledgment and terminate response
\* the session writes.
C3_AnsweredAtMostOnce == \A c \in Ctxs : Answers(c) <= 1

\* A superseded request got its 403, a request was acknowledged empty by a
\* timer and another got a normal response.
C3_Witness ==
  \E a, b, c \in Ctxs :
    /\ AnsweredAs(a, "conflict")
    /\ AnsweredAs(b, "ack")
    /\ AnsweredAs(c, "normal")

(* -------------------------------- C4 ---------------------------------- *)
\* C4: every context held in inQueue or outQueue has its own liveness timer
\* armed.
C4_HeldHasTimer == \A c \in Held : c \in Range(timers)

(* -------------------------------- C5 ---------------------------------- *)
\* the context handleHTTP is called with in this step, if it is one
Submitted == Len(ctxs')
IsHandleHTTP == Len(ctxs') > Len(ctxs)
\* the context workInQueue takes out of inQueue in this step, if it does
Processed == handled'[Len(handled')]
IsProcessing == Len(handled') > Len(handled)

\* C5: a handleHTTP call whose sequence number n is already queued answers
\* the queued context with the 403 conflict at once and puts the new
\* context in its place as inQueue[n]; and the context workInQueue
\* processes for a sequence number is the latest one submitted under it,
\* never one that was superseded.
C5_Supersede ==
  [][ /\ ( (IsHandleHTTP /\ ctxs'[Submitted].rid \in DOMAIN inQueue) =>
              LET n == ctxs'[Submitted].rid
              IN  /\ written' = Append(written,
                                       Resp(inQueue[n], "conflict", <<>>))
                  /\ inQueue' = [inQueue EXCEPT ![n] = Submitted] )
      /\ ( IsProcessing =>
              ( /\ ~AnsweredAs(Processed, "conflict")
                /\ \A d \in Ctxs :
                     ctxs[d].rid = ctxs[Processed].rid => d <= Processed ) )
    ]_vars

\* A request was superseded and the one that replaced it was processed.
C5_Witness ==
  \E a, b \in Ctxs :
    /\ a < b
    /\ ctxs[a].rid = ctxs[b].rid
    /\ AnsweredAs(a, "conflict")
    /\ b \in Range(handled)

(* -------------------------------- C6 ---------------------------------- *)
\* the session as workInQueue finds it in this step: in the callback
\* scheduled by an earlier workInQueue, workOutQueue has run first
AtWorkInQueue == IF Head(tasks) = "respond" THEN workOutQueue(State) ELSE State

\* C6: when workInQueue processes a terminate request, every context then
\* in outQueue and the terminate request itself are each answered with a
\* terminate response without payloads, outQueue is left empty, and the
\* step ends by emitting 'end' and then 'close'.
C6_TerminateFlush ==
  [][(IsProcessing /\ ctxs[Processed].type = "terminate") =>
       LET mid == AtWorkInQueue
           held == Append(mid.outQueue, Processed)
           new == SubSeq(events', Len(mid.events) + 1, Len(events'))
       IN  /\ written' = mid.written \o
                 [i \in 1 .. Len(held) |-> Resp(held[i], "terminate", <<>>)]
           /\ outQueue' = <<>>
           /\ Len(new) >= 2
           /\ new[Len(new) - 1].ev = "end"
           /\ new[Len(new)].ev = "close"
           /\ \A i \in 1 .. Len(new) - 2 : new[i].ev = "data"
     ]_vars

\* A terminate request was processed while another context was held: both
\* got a terminate response and the session emitted 'end'.
C6_Witness ==
  /\ Emitted("end") # {}
  /\ \E a, b \in Ctxs :
       /\ a # b
       /\ ctxs[b].type = "terminate"
       /\ AnsweredAs(a, "terminate")
       /\ AnsweredAs(b, "terminate")

(* -------------------------------- C7 ---------------------------------- *)
\* C7: once 'close' has been emitted the session emits no further event.
C7_NoEventAfterClose == [][Closed => events' = events]_vars

(* -------------------------------- C8 ---------------------------------- *)
\* C8: at most one session idle timer is armed at a time, and the session
\* timeout ('error' then 'close') is emitted at most once.
C8_IdleExpiryOnce ==
  /\ IdleArmed <= 1
  /\ Cardinality(Emitted("error")) <= 1

(* -------------------------------- C9 ---------------------------------- *)
\* C9: while the session has not closed and outQueue is empty, a session
\* idle timer is armed.
C9_IdleArmedWhenNoSlot == (~Closed /\ outQueue = <<>>) => IdleArmed > 0

(* -------------------------------- C10 --------------------------------- *)
RECURSIVE Concat(_)
Concat(rs) == IF rs = <<>> THEN <<>> ELSE Head(rs).children \o Concat(Tail(rs))

\* the payloads of the normal responses, in the order they were written
Delivered == Concat(SelectSeq(written, LAMBDA r : r.kind = "normal"))

NoDuplicates(q) == \A i, j \in 1 .. Len(q) : i < j => q[i] # q[j]

\* C10 as stated: the payloads of the normal responses, concatenated in
\* response order, are a prefix of the payloads passed to write(), and no
\* payload is delivered twice.
C10_DeliveredPrefixOfWritten ==
  IsPrefix(Delivered, wrote) /\ NoDuplicates(Delivered)

\* C10 amended: the payloads of the normal responses, concatenated in
\* response order, are a prefix of the payloads passed to write() that
\* parse as XML (a fragment that fails to parse is dropped from its
\* response), and no payload is delivered twice.
C10_DeliveredPrefixOfParsed ==
  IsPrefix(Delivered, Parsed(wrote)) /\ NoDuplicates(Delivered)

\* A payload was delivered although an earlier written fragment was dropped.
C10_Witness ==
  /\ Delivered # <<>>
  /\ \E i \in 1 .. Len(wrote) : ~wrote[i].wf /\ i < Delivered[1].n

(* -------------------------------- C11 --------------------------------- *)
\* C11: payloads written while no slot was held are delivered as soon as a
\* context enters outQueue: once no scheduled task is pending, stanzaQueue
\* and outQueue are never both non-empty.
C11_NoBacklogBesideSlot ==
  tasks = <<>> => ~(stanzaQueue # <<>> /\ outQueue # <<>>)

(* -------------------------------- C12 --------------------------------- *)
\* C12: a request whose sequence number is greater than nextRid stays
\* buffered in inQueue, and causes no event and no change of nextRid, until
\* the request numbered nextRid has been processed: its admission emits
\* nothing and leaves nextRid alone, and as long as no request is processed
\* its sequence number stays keyed in inQueue with nothing emitted for it.
C12_AheadStaysBuffered ==
  [][ /\ ( (IsHandleHTTP /\ ctxs'[Submitted].rid > nextRid) =>
             ( /\ events' = events
               /\ nextRid' = nextRid
               /\ inQueue'[ctxs'[Submitted].rid] = Submitted ) )
      /\ ( \A r \in DOMAIN inQueue :
             (r > nextRid /\ ~IsProcessing) =>
               ( /\ r \in DOMAIN inQueue'
                 /\ nextRid' = nextRid
                 /\ \A i \in 1 .. Len(events') :
                      events'[i].ctx # inQueue'[r] ) )
    ]_vars

(* -------------------------------- C13 --------------------------------- *)
\* the session timeout is emitted in this step
IsSessionTimeout ==
  Cardinality((Emitted("error"))') > Cardinality(Emitted("error"))

\* C13: the session timeout ('error', 'close') is emitted only while
\* outQueue is empty.
C13_TimeoutOnlyWithoutSlot == [][IsSessionTimeout => outQueue = <<>>]_vars

(* -------------------------------- C14 --------------------------------- *)
\* C14: no armed liveness timer belongs to a context that has already been
\* answered.
C14_NoTimerOfAnswered == \A c \in Range(timers) : ~Answered(c)

(* -------------------------------- C15 --------------------------------- *)
\* 'close' is emitted in this step
IsClose == Cardinality((Emitted("close"))') > Cardinality(Emitted("close"))

\* C15: when the session emits 'close', no context is left held in inQueue
\* or outQueue: all of them have been answered.
C15_NothingHeldAtClose == [][IsClose => Held' = {}]_vars

(* -------------------------------- C16 --------------------------------- *)
\* C16: handleHTTP with a sequence number below nextRid that is not queued
\* only appends the context to outQueue and leaves everything else as it
\* was; a context that is outside inQueue without having been processed is
\* never processed later, and 'data' is only ever emitted for processed
\* contexts, so no payload of the stale request is emitted then or later.
C16_StaleOnlyQueued ==
  [][ /\ ( ( /\ IsHandleHTTP
             /\ ctxs'[Submitted].rid \notin DOMAIN inQueue
             /\ ctxs'[Submitted].rid < nextRid ) =>
             ( /\ outQueue' = Append(outQueue, Submitted)
               /\ UNCHANGED <<nextRid, inQueue, stanzaQueue,
                              connectionTimeout, orphaned, timers, tasks,
                              events, written, handled>> ) )
      /\ ( \A c \in Ctxs :
             ( /\ c \notin Range(handled)
               /\ c \notin {inQueue[r] : r \in DOMAIN inQueue} ) =>
               c \notin Range(handled') )
      /\ ( \A i \in 1 .. Len(events') :
             events'[i].ev = "data" => events'[i].ctx \in Range(handled') )
    ]_vars

\* A stale request that carried children was given a normal response
\* without ever being processed.
C16_Witness ==
  \E c \in Ctxs :
    /\ ctxs[c].nch > 0
    /\ ctxs[c].rid < nextRid
    /\ c \notin Range(handled)
    /\ AnsweredAs(c, "normal")

(* -------------------------------- C17 --------------------------------- *)
Separated ==
  /\ \A r \in DOMAIN inQueue : r >= nextRid
  /\ \A i \in 1 .. Len(outQueue) : ctxs[outQueue[i]].rid < nextRid

\* C17: every sequence number keyed in inQueue is at least nextRid and
\* every context in outQueue has a sequence number below nextRid; nextRid
\* never decreases, and it changes, by exactly one, in the steps in which
\* workInQueue takes inQueue[nextRid] out of inQueue and in no other.
C17_NextRidSeparates ==
  [][ /\ Separated
      /\ Separated'
      /\ nextRid' >= nextRid
      /\ ( nextRid' # nextRid <=> IsProcessing )
      /\ ( IsProcessing =>
             ( /\ nextRid' = nextRid + 1
               /\ nextRid \in DOMAIN inQueue
               /\ Processed = inQueue[nextRid]
               /\ nextRid \notin DOMAIN inQueue' ) )
    ]_vars

\* Two requests have been processed, one is buffered ahead of sequence and
\* outQueue holds a context.
C17_Witness ==
  /\ nextRid = FirstRid + 1
  /\ DOMAIN inQueue # {}
  /\ Len(outQueue) >= 2

(* -------------------------------- C18 --------------------------------- *)
\* a step that is one run of workOutQueue and nothing else: the scheduled
\* workOutQueue, or the scheduled callback whose workInQueue finds no
\* request to process
IsDrain ==
  /\ tasks # <<>>
  /\ Head(tasks) \in {"workOutQueue", "respond"}
  /\ tasks' = Tail(tasks)
  /\ ~IsProcessing

\* what workOutQueue does on an empty queue of either kind
DrainIdle ==
  /\ ( outQueue = <<>> =>
         UNCHANGED <<written, stanzaQueue, outQueue, events>> )
  /\ ( (stanzaQueue = <<>> /\ outQueue # <<>>) =>
         ( /\ events' = Append(events, Plain("drain"))
           /\ UNCHANGED <<written, stanzaQueue, outQueue>> ) )

\* C18 as stated: with both queues non-empty workOutQueue writes one normal
\* response to the head of outQueue carrying every payload of stanzaQueue
\* in order, empties stanzaQueue and leaves the rest of outQueue; with
\* outQueue empty it does nothing; with only stanzaQueue empty it emits
\* 'drain' and changes neither queue.
C18_DrainSendsAll ==
  [][ IsDrain =>
        ( /\ DrainIdle
          /\ ( (stanzaQueue # <<>> /\ outQueue # <<>>) =>
                 ( /\ written' = Append(written, Resp(Head(outQueue),
                                                      "normal", stanzaQueue))
                   /\ stanzaQueue' = <<>>
                   /\ outQueue' = Tail(outQueue)
                   /\ events' = events ) ) )
    ]_vars

\* C18 amended: as stated, except that the response carries, in order,
\* the payloads of stanzaQueue that parse as XML.
C18_DrainSendsParsed ==
  [][ IsDrain =>
        ( /\ DrainIdle
          /\ ( (stanzaQueue # <<>> /\ outQueue # <<>>) =>
                 ( /\ written' = Append(written, Resp(Head(outQueue),
                                              "normal", Parsed(stanzaQueue)))
                   /\ stanzaQueue' = <<>>
                   /\ outQueue' = Tail(outQueue)
                   /\ events' = events ) ) )
    ]_vars

\* One drain answered the oldest of two held contexts with a batch out of
\* which a fragment was dropped; the other context is still held.
C18_Witness ==
  /\ outQueue # <<>>
  /\ stanzaQueue = <<>>
  /\ \E i \in 1 .. Len(written) :
       /\ written[i].kind = "normal"
       /\ written[i].children # <<>>
       /\ written[i].ctx < Head(outQueue)
       /\ \E k \in 1 .. Len(wrote) :
            ~wrote[k].wf /\ k < written[i].children[1].n

(* -------------------------------- C19 --------------------------------- *)
\* positions of the synthetic stream-open 'data' events of context c
StreamOpens(c) ==
  {i \in 1 .. Len(events) :
     /\ events[i].ev = "data"
     /\ events[i].ctx = c
     /\ events[i].what \in {"xmldecl", "stream"}}

\* C19: the first processed request gets the stream-open events; a later
\* processed request gets none unless it carries xmpp:restart="true", and
\* then exactly one; stream-open events come before the payload events of
\* their request.
C19_StreamOpen ==
  \A p \in 1 .. Len(handled) :
    LET h == handled[p]
    IN  /\ p = 1 => StreamOpens(h) # {}
        /\ (p > 1 /\ ctxs[h].restart # "true") => StreamOpens(h) = {}
        /\ (p > 1 /\ ctxs[h].restart = "true") =>
             Cardinality(StreamOpens(h)) = 1
        /\ \A i \in StreamOpens(h) : \A j \in ChildData :
             events[j].ctx = h => i < j

\* After the creating request, a request with payloads that restarts the
\* stream and one that does not have both been processed.
C19_Witness ==
  \E p, q \in 2 .. Len(handled) :
    /\ ctxs[handled[p]].restart = "true"
    /\ ctxs[handled[p]].nch > 0
    /\ ctxs[handled[q]].restart = ""
    /\ ctxs[handled[q]].nch > 0


(* -------------------------------- C20 --------------------------------- *)
\* C20: a request that is still buffered in inQueue is given a success
\* response (normal, empty acknowledgment or terminate) only by being
\* processed: no step answers it with success and leaves it unprocessed.
C20_SuccessOnlyAfterProcessing ==
  [][ \A c \in {inQueue[r] : r \in DOMAIN inQueue} :
        (Answered(c))' =>
          ( (AnsweredAs(c, "conflict"))' \/ c \in (Range(handled))' )
    ]_vars

====
